---- MODULE Spec2Model ----
(***************************************************************************)
(* A model of the solitaire game engine (src/src/game.rs) and of the card  *)
(* and address types it is built on (src/src/core.rs).                     *)
(*                                                                         *)
(* The engine state is the six fields of GameEngine.  One action of the    *)
(* model is one call of GameEngine::act, with the action taken from a      *)
(* bounded set of inputs.  act itself is the operator act(g, action), which *)
(* yields the call's return value and the engine after the call, so that   *)
(* properties of a single call are stated of act at every reachable state. *)
(*                                                                         *)
(* Scaling: the deck has the suits of SuitOrder (2 of the program's 4) of   *)
(* MaxRank ranks each (13 in the program), there is one foundation per     *)
(* suit, and the tableau has NumDepots columns (7 in the program); the     *)
(* King is the card of rank MaxRank.                                       *)
(***************************************************************************)
EXTENDS Integers, Sequences, FiniteSets, TLC

\* ------------------------------------------------------------------ bounds
\* ranks per suit; the program has 13 (Value, core.rs)
MaxRank == 3
\* tableau columns; the program has 7 (Addr::DEPOTS, core.rs)
NumDepots == 2
\* the card counts n tried in Move(from, to, n) are 0..MaxCount
MaxCount == 2
\* the seeds tried in deal(seed) are 0..MaxSeed
MaxSeed == 1

\* ------------------------------------------------------------------ core.rs
\* The suits of the model's deck, in the order in which shuffled_deck lays
\* them out before shuffling: the first two of the program's four (Hearts,
\* Clubs, Diamonds, Spades), one red and one black.
SuitOrder == <<"Hearts", "Clubs">>

NumSuits == Len(SuitOrder)

Suit == {SuitOrder[i] : i \in 1..NumSuits}

\* one foundation per suit
NumFoundations == NumSuits

color(s) == IF s \in {"Hearts", "Diamonds"} THEN "Red" ELSE "Black"

ACE == 1
KING == MaxRank

is_king(v) == v = KING

Waste == [kind |-> "Waste", index |-> 1]
Foundation(i) == [kind |-> "Foundation", index |-> i]
Depot(i) == [kind |-> "Depot", index |-> i]

FOUNDATIONS == {Foundation(i) : i \in 1..NumFoundations}
DEPOTS == {Depot(i) : i \in 1..NumDepots}
Addr == {Waste} \cup FOUNDATIONS \cup DEPOTS

is_depot(a) == a.kind = "Depot"
is_foundation(a) == a.kind = "Foundation"
is_waste(a) == a.kind = "Waste"

\* ------------------------------------------------------------------ game.rs
\* aborted: a call of act panicked, which ends the process
VARIABLES talon, waste, columns, foundations, state, current_score, aborted

\* The planner that plays the engine in main's loop (main.rs, ai/):
\*   ai                        which planner: "Simple", "Greedy", or "None"
\*   view                      its SolitaireObserver
\*   seen_state_action_combos  its memory of (view, action) pairs
\*   number_of_passes          its count of the Turnovers it returned
\*   last_action               the action make_move returned last
\*   pc                        where the loop stands: "make_move", "act", "done"
\*   panic_message             the panic that ended the loop, "" if none
VARIABLES ai, view, seen_state_action_combos, number_of_passes, last_action, pc,
          panic_message

engine_vars == <<talon, waste, columns, foundations, state, current_score, aborted>>

planner_vars == <<ai, view, seen_state_action_combos, number_of_passes, last_action,
                  pc, panic_message>>

vars == <<talon, waste, columns, foundations, state, current_score, aborted,
          ai, view, seen_state_action_combos, number_of_passes, last_action, pc,
          panic_message>>

\* the GameEngine value held in the variables
GameEngine == [talon |-> talon, waste |-> waste, columns |-> columns,
               foundations |-> foundations, state |-> state,
               current_score |-> current_score]

GameEngineNext == [talon |-> talon', waste |-> waste', columns |-> columns',
                   foundations |-> foundations', state |-> state',
                   current_score |-> current_score']

Card(s, v, up) == [suit |-> s, value |-> v, faceup |-> up]

reveal_card(c) == [c EXCEPT !.faceup = TRUE]

numeric_value(c) == c.value

\* Option<(Suit, Value)> as a sequence of at most one pair
None == <<>>
Some(c) == <<(<<c.suit, c.value>>)>>

Ok(v) == [kind |-> "Ok", value |-> v]
Err(e) == [kind |-> "Err", value |-> <<e>>]
\* the call did not return: an index out of bounds aborts the process
Panic == [kind |-> "Panic", value |-> None]

Last(s) == s[Len(s)]
Front(s) == SubSeq(s, 1, Len(s) - 1)

RECURSIVE Reverse(_)
Reverse(s) == IF s = <<>> THEN <<>> ELSE Append(Reverse(Tail(s)), Head(s))

\* Action values; the fields an action kind does not carry hold NoAddr / 0
NoAddr == [kind |-> "None", index |-> 0]
Take == [type |-> "Take", from |-> NoAddr, to |-> NoAddr, n |-> 0]
Turnover == [type |-> "Turnover", from |-> NoAddr, to |-> NoAddr, n |-> 0]
Quit == [type |-> "Quit", from |-> NoAddr, to |-> NoAddr, n |-> 0]
Reveal(a) == [type |-> "Reveal", from |-> a, to |-> NoAddr, n |-> 0]
Move(a, b, k) == [type |-> "Move", from |-> a, to |-> b, n |-> k]
\* no action yet
NoAction == [type |-> "None", from |-> NoAddr, to |-> NoAddr, n |-> 0]

\* ---------------------------------------------------------- shuffled_deck
\* The unshuffled pack: suit by suit, ranks ascending, all face-down.
RECURSIVE ordered_deck(_)
ordered_deck(k) ==
    IF k = 0 THEN <<>>
    ELSE Append(ordered_deck(k - 1),
                Card(SuitOrder[((k - 1) \div MaxRank) + 1],
                     ((k - 1) % MaxRank) + 1, FALSE))

DeckSize == NumSuits * MaxRank

\* Stand-in for the seeded generator of the rand crate: a linear
\* congruential generator.  The shuffle is the Fisher-Yates shuffle of
\* SliceRandom::shuffle: for i from the last index down to 1, swap i with a
\* drawn index in 0..=i.
rng_next(x) == (x * 5 + 35) % 65537

Swap(d, i, j) == [d EXCEPT ![i] = d[j], ![j] = d[i]]

RECURSIVE shuffle(_, _, _)
shuffle(d, i, x) ==
    IF i <= 1 THEN d
    ELSE LET y == rng_next(x)
         IN  shuffle(Swap(d, i, (y % i) + 1), i - 1, y)

shuffled_deck(seed) == shuffle(ordered_deck(DeckSize), DeckSize, seed)

\* ------------------------------------------------------------ GameEngine
\* build_depot: the next n cards of the pack, the last one revealed
\* mutant of build_depot: the first card dealt to the column is revealed
build_depot_first_up(pack, first, n) ==
    LET v == SubSeq(pack, first, first + n - 1)
    IN  [v EXCEPT ![1] = reveal_card(v[1])]

build_depot(pack, first, n) ==
    LET v == SubSeq(pack, first, first + n - 1)
    IN  [v EXCEPT ![n] = reveal_card(v[n])]

\* cards dealt to the columns before column i
dealt_before(i) == (i * (i - 1)) \div 2

deal(seed) ==
    LET pack == shuffled_deck(seed)
    IN  [talon |-> SubSeq(pack, dealt_before(NumDepots + 1) + 1, Len(pack)),
         waste |-> <<>>,
         columns |-> [i \in 1..NumDepots |->
                        build_depot(pack, dealt_before(i) + 1, i)],
         foundations |-> [i \in 1..NumFoundations |-> <<>>],
         state |-> "Running",
         current_score |-> 0]

score(g) == g.current_score
is_running(g) == g.state = "Running"
is_won(g) == g.state = "Win"

pile(g, addr) ==
    IF is_waste(addr) THEN g.waste
    ELSE IF is_depot(addr) THEN g.columns[addr.index]
    ELSE g.foundations[addr.index]

\* assignment through pile_mut
pile_mut(g, addr, p) ==
    IF is_waste(addr) THEN [g EXCEPT !.waste = p]
    ELSE IF is_depot(addr) THEN [g EXCEPT !.columns[addr.index] = p]
    ELSE [g EXCEPT !.foundations[addr.index] = p]

\* what an engine operation yields: its return value and the engine after it
Outcome(r, g) == [res |-> r, g |-> g]

\* mutant of take: the card taken also stays on the talon
take_keeps_talon(g) ==
    IF g.talon # <<>>
    THEN LET c == Last(g.talon)
         IN  Outcome(Ok(Some(c)),
                     [g EXCEPT !.waste = Append(g.waste, reveal_card(c))])
    ELSE Outcome(Err("Unspecified"), g)

\* mutant of take: the card is drawn from the other end of the talon
take_first(g) ==
    IF g.talon # <<>>
    THEN LET c == Head(g.talon)
         IN  Outcome(Ok(Some(c)),
                     [g EXCEPT !.talon = Tail(g.talon),
                               !.waste = Append(g.waste, reveal_card(c))])
    ELSE Outcome(Err("Unspecified"), g)

take(g) ==
    IF g.talon # <<>>
    THEN LET c == Last(g.talon)
         IN  Outcome(Ok(Some(c)),
                     [g EXCEPT !.talon = Front(g.talon),
                               !.waste = Append(g.waste, reveal_card(c))])
    ELSE Outcome(Err("Unspecified"), g)

\* mutant of turnover: the waste is not reversed
turnover_same_order(g) ==
    IF g.talon = <<>>
    THEN IF g.waste = <<>>
         THEN Outcome(Err("Unspecified"), g)
         ELSE Outcome(Ok(None),
                      [g EXCEPT !.talon = [i \in 1..Len(g.waste) |->
                                      [g.waste[i] EXCEPT !.faceup = FALSE]],
                                !.waste = <<>>])
    ELSE Outcome(Err("Unspecified"), g)

\* mutant of turnover: the cards keep their faces
turnover_keeps_faces(g) ==
    IF g.talon = <<>>
    THEN IF g.waste = <<>>
         THEN Outcome(Err("Unspecified"), g)
         ELSE Outcome(Ok(None),
                      [g EXCEPT !.talon = Reverse(g.waste), !.waste = <<>>])
    ELSE Outcome(Err("Unspecified"), g)

turnover(g) ==
    IF g.talon = <<>>
    THEN IF g.waste = <<>>
         THEN Outcome(Err("Unspecified"), g)
         ELSE Outcome(Ok(None),
                      [g EXCEPT !.talon = Reverse([i \in 1..Len(g.waste) |->
                                      [g.waste[i] EXCEPT !.faceup = FALSE]]),
                                !.waste = <<>>])
    ELSE Outcome(Err("Unspecified"), g)

\* mutant of reveal: the face of the top card is not tested
reveal_any(g, addr) ==
    IF ~is_depot(addr)
    THEN Outcome(Err("Cannot reveal cards in this pile"), g)
    ELSE LET col == g.columns[addr.index]
         IN  IF col # <<>>
             THEN Outcome(Ok(Some(Last(col))),
                          [g EXCEPT !.columns[addr.index][Len(col)] =
                                        reveal_card(Last(col))])
             ELSE Outcome(Err("Unspecified"), g)

reveal(g, addr) ==
    IF ~is_depot(addr)
    THEN Outcome(Err("Cannot reveal cards in this pile"), g)
    ELSE LET col == g.columns[addr.index]
         IN  IF col # <<>>
             THEN IF Last(col).faceup
                  THEN Outcome(Err("Unspecified"), g)
                  ELSE Outcome(Ok(Some(Last(col))),
                               [g EXCEPT !.columns[addr.index][Len(col)] =
                                             reveal_card(Last(col))])
             ELSE Outcome(Err("Unspecified"), g)

\* mutant of move_top: the card is pushed on `to` and never popped off `from`
move_top_copy(g, from, to) ==
    pile_mut(g, to, Append(pile(g, to), Last(pile(g, from))))

\* pop the last card of `from`, then push it on `to`
move_top(g, from, to) ==
    LET card == Last(pile(g, from))
        g1 == pile_mut(g, from, Front(pile(g, from)))
    IN  pile_mut(g1, to, Append(pile(g1, to), card))

\* mutant of win_check: the status is recomputed, Running when incomplete
win_check_resets(g) ==
    IF \A i \in 1..NumFoundations : Len(g.foundations[i]) = MaxRank
    THEN [g EXCEPT !.state = "Win"]
    ELSE [g EXCEPT !.state = "Running"]

\* mutant of win_check: one complete foundation is taken for a win
win_check_any(g) ==
    IF \E i \in 1..NumFoundations : Len(g.foundations[i]) = MaxRank
    THEN [g EXCEPT !.state = "Win"]
    ELSE g

\* the win test made after a card was built on a non-empty foundation
win_check(g) ==
    IF \A i \in 1..NumFoundations : Len(g.foundations[i]) = MaxRank
    THEN [g EXCEPT !.state = "Win"]
    ELSE g

\* mutant of move_to_foundation: the suit of the foundation is not compared
move_to_foundation_any_suit(g, from, to) ==
    IF pile(g, from) = <<>> THEN Outcome(Err("NoCardToMove"), g)
    ELSE LET card_to_move == Last(pile(g, from))
         IN  IF numeric_value(card_to_move) = 1 /\ pile(g, to) = <<>>
             THEN Outcome(Ok(None), move_top(g, from, to))
             ELSE IF numeric_value(card_to_move) = 1
             THEN Outcome(Err("Cannot place ace on non-empty slot"), g)
             ELSE IF pile(g, to) # <<>>
             THEN LET c == Last(pile(g, to))
                  IN  IF numeric_value(card_to_move) = numeric_value(c) + 1
                      THEN Outcome(Ok(None), win_check(move_top(g, from, to)))
                      ELSE Outcome(Err("Cannot place card on top of non-matching suit or non-one-lower value"), g)
             ELSE Outcome(Err("Cannot place non-ace on empty slot"), g)

move_to_foundation(g, from, to) ==
    IF pile(g, from) = <<>> THEN Outcome(Err("NoCardToMove"), g)
    ELSE LET card_to_move == Last(pile(g, from))
         IN  IF numeric_value(card_to_move) = 1 /\ pile(g, to) = <<>>
             THEN Outcome(Ok(None), move_top(g, from, to))
             ELSE IF numeric_value(card_to_move) = 1
             THEN Outcome(Err("Cannot place ace on non-empty slot"), g)
             ELSE IF pile(g, to) # <<>>
             THEN LET c == Last(pile(g, to))
                  IN  IF /\ c.suit = card_to_move.suit
                         /\ numeric_value(card_to_move) = numeric_value(c) + 1
                      THEN Outcome(Ok(None), win_check(move_top(g, from, to)))
                      ELSE Outcome(Err("Cannot place card on top of non-matching suit or non-one-lower value"), g)
             ELSE Outcome(Err("Cannot place non-ace on empty slot"), g)

\* split_off(n_skip) from `from`, then append to `to`
move_run(g, from, to, n_skip) ==
    LET src == pile(g, from)
        cards_to_move == SubSeq(src, n_skip + 1, Len(src))
        g1 == pile_mut(g, from, SubSeq(src, 1, n_skip))
    IN  pile_mut(g1, to, pile(g1, to) \o cards_to_move)

\* mutant of move_to_depot: the ranks are not compared
move_to_depot_any_rank(g, from, to, n) ==
    LET src == pile(g, from)
        dst == pile(g, to)
        n_skip == IF Len(src) >= n THEN Len(src) - n ELSE 0
    IN  IF Len(src) < n THEN Outcome(Err("Unspecified"), g)
        ELSE IF \E i \in (n_skip + 1)..Len(src) : ~src[i].faceup
        THEN Outcome(Err("Unspecified"), g)
        ELSE IF n_skip >= Len(src) THEN Outcome(Panic, g)
        ELSE LET base_card == src[n_skip + 1]
             IN  IF is_king(base_card.value) /\ dst = <<>>
                 THEN Outcome(Ok(None), move_run(g, from, to, n_skip))
                 ELSE IF /\ dst # <<>>
                         /\ color(base_card.suit) # color(Last(dst).suit)
                         /\ Last(dst).faceup
                 THEN Outcome(Ok(None), move_run(g, from, to, n_skip))
                 ELSE Outcome(Err("Unspecified"), g)

\* mutant of move_to_depot: the colors are not compared
move_to_depot_any_color(g, from, to, n) ==
    LET src == pile(g, from)
        dst == pile(g, to)
        n_skip == IF Len(src) >= n THEN Len(src) - n ELSE 0
    IN  IF Len(src) < n THEN Outcome(Err("Unspecified"), g)
        ELSE IF \E i \in (n_skip + 1)..Len(src) : ~src[i].faceup
        THEN Outcome(Err("Unspecified"), g)
        ELSE IF n_skip >= Len(src) THEN Outcome(Panic, g)
        ELSE LET base_card == src[n_skip + 1]
             IN  IF is_king(base_card.value) /\ dst = <<>>
                 THEN Outcome(Ok(None), move_run(g, from, to, n_skip))
                 ELSE IF /\ dst # <<>>
                         /\ numeric_value(base_card) = numeric_value(Last(dst)) - 1
                         /\ Last(dst).faceup
                 THEN Outcome(Ok(None), move_run(g, from, to, n_skip))
                 ELSE Outcome(Err("Unspecified"), g)

\* mutant of move_to_depot: the faces of the moved cards are not checked
move_to_depot_any_face(g, from, to, n) ==
    LET src == pile(g, from)
        dst == pile(g, to)
        n_skip == IF Len(src) >= n THEN Len(src) - n ELSE 0
    IN  IF Len(src) < n THEN Outcome(Err("Unspecified"), g)
        ELSE IF n_skip >= Len(src) THEN Outcome(Panic, g)
        ELSE LET base_card == src[n_skip + 1]
             IN  IF is_king(base_card.value) /\ dst = <<>>
                 THEN Outcome(Ok(None), move_run(g, from, to, n_skip))
                 ELSE IF /\ dst # <<>>
                         /\ color(base_card.suit) # color(Last(dst).suit)
                         /\ numeric_value(base_card) = numeric_value(Last(dst)) - 1
                         /\ Last(dst).faceup
                 THEN Outcome(Ok(None), move_run(g, from, to, n_skip))
                 ELSE Outcome(Err("Unspecified"), g)

move_to_depot(g, from, to, n) ==
    LET src == pile(g, from)
        dst == pile(g, to)
        n_skip == IF Len(src) >= n THEN Len(src) - n ELSE 0
    IN  IF Len(src) < n THEN Outcome(Err("Unspecified"), g)
        ELSE IF \E i \in (n_skip + 1)..Len(src) : ~src[i].faceup
        THEN Outcome(Err("Unspecified"), g)
        \* base_card = self.pile(from)[n_skip]: the index is checked
        ELSE IF n_skip >= Len(src) THEN Outcome(Panic, g)
        ELSE LET base_card == src[n_skip + 1]
             IN  IF is_king(base_card.value) /\ dst = <<>>
                 THEN Outcome(Ok(None), move_run(g, from, to, n_skip))
                 ELSE IF /\ dst # <<>>
                         /\ color(base_card.suit) # color(Last(dst).suit)
                         /\ numeric_value(base_card) = numeric_value(Last(dst)) - 1
                         /\ Last(dst).faceup
                 THEN Outcome(Ok(None), move_run(g, from, to, n_skip))
                 ELSE Outcome(Err("Unspecified"), g)

\* mutant of move_cards: the count is not checked for a waste or foundation
\* source
move_cards_any_source_count(g, from, to, n) ==
    IF is_waste(to) THEN Outcome(Err("Unspecified"), g)
    ELSE IF is_foundation(to)
    THEN IF n # 1 THEN Outcome(Err("Unspecified"), g)
         ELSE move_to_foundation(g, from, to)
    ELSE move_to_depot(g, from, to, n)

\* mutant of move_cards: the count is not checked for a foundation destination
move_cards_any_count(g, from, to, n) ==
    IF (is_waste(from) \/ is_foundation(from)) /\ n # 1
    THEN Outcome(Err("Unspecified"), g)
    ELSE IF is_waste(to) THEN Outcome(Err("Unspecified"), g)
    ELSE IF is_foundation(to) THEN move_to_foundation(g, from, to)
    ELSE move_to_depot(g, from, to, n)

move_cards(g, from, to, n) ==
    IF (is_waste(from) \/ is_foundation(from)) /\ n # 1
    THEN Outcome(Err("Unspecified"), g)
    ELSE IF is_waste(to) THEN Outcome(Err("Unspecified"), g)
    ELSE IF is_foundation(to)
    THEN IF n # 1 THEN Outcome(Err("Unspecified"), g)
         ELSE move_to_foundation(g, from, to)
    ELSE move_to_depot(g, from, to, n)

\* mutant of quit: the call succeeds and the game goes on
quit_keeps_running(g) == Outcome(Ok(None), g)

\* mutant of quit: only a running game is ended
quit_when_running(g) ==
    Outcome(Ok(None), IF g.state = "Running" THEN [g EXCEPT !.state = "Fail"] ELSE g)

quit(g) == Outcome(Ok(None), [g EXCEPT !.state = "Fail"])

\* mutant of saturating_sub: a plain subtraction
plain_sub(a, b) == a - b

saturating_sub(a, b) == IF a >= b THEN a - b ELSE 0

\* mutant of score_action: a card built from a column scores like one placed
\* on a column
score_action_depot_5(g, action) ==
    IF action.type = "Move"
    THEN IF is_waste(action.from) /\ is_foundation(action.to)
         THEN [g EXCEPT !.current_score = @ + 10]
         ELSE IF is_waste(action.from) /\ is_depot(action.to)
         THEN [g EXCEPT !.current_score = @ + 5]
         ELSE IF is_depot(action.from) /\ is_foundation(action.to)
         THEN [g EXCEPT !.current_score = @ + 5]
         ELSE IF is_foundation(action.from) /\ is_depot(action.to)
         THEN [g EXCEPT !.current_score = saturating_sub(@, 15)]
         ELSE g
    ELSE IF action.type = "Reveal"
    THEN [g EXCEPT !.current_score = @ + 5]
    ELSE IF action.type = "Turnover"
    THEN [g EXCEPT !.current_score = saturating_sub(@, 100)]
    ELSE g

score_action(g, action) ==
    IF action.type = "Move"
    THEN IF is_waste(action.from) /\ is_foundation(action.to)
         THEN [g EXCEPT !.current_score = @ + 10]
         ELSE IF is_waste(action.from) /\ is_depot(action.to)
         THEN [g EXCEPT !.current_score = @ + 5]
         ELSE IF is_depot(action.from) /\ is_foundation(action.to)
         THEN [g EXCEPT !.current_score = @ + 10]
         ELSE IF is_foundation(action.from) /\ is_depot(action.to)
         THEN [g EXCEPT !.current_score = saturating_sub(@, 15)]
         ELSE g
    ELSE IF action.type = "Reveal"
    THEN [g EXCEPT !.current_score = @ + 5]
    ELSE IF action.type = "Turnover"
    THEN [g EXCEPT !.current_score = saturating_sub(@, 100)]
    ELSE g

dispatch(g, action) ==
    IF action.type = "Take" THEN take(g)
    ELSE IF action.type = "Move"
    THEN move_cards(g, action.from, action.to, action.n)
    ELSE IF action.type = "Reveal" THEN reveal(g, action.from)
    ELSE IF action.type = "Quit" THEN quit(g)
    ELSE turnover(g)

\* mutant of act: the score is updated whatever the call returned
act_scores_failures(g, action) ==
    LET moveres == dispatch(g, action)
    IN  Outcome(moveres.res, score_action(moveres.g, action))

act(g, action) ==
    LET moveres == dispatch(g, action)
    IN  IF moveres.res.kind = "Ok"
        THEN Outcome(moveres.res, score_action(moveres.g, action))
        ELSE moveres

\* -------------------------------------------------------------- ai/mod.rs
\* CardView: a card as a player sees it
FaceUp(s, v) == [tag |-> "FaceUp", suit |-> s, value |-> v]
FaceDown == [tag |-> "FaceDown", suit |-> "", value |-> 0]

\* mutant of card_view: a face-down card is shown like a face-up one
card_view_leaky(c) == FaceUp(c.suit, c.value)

\* impl From<Card> for CardView
card_view(c) == IF c.faceup THEN FaceUp(c.suit, c.value) ELSE FaceDown

\* impl From<Card> for (Suit, Value)
suit_value(c) == <<c.suit, c.value>>

\* GameEngine::observe: the SolitaireObserver of an engine
observe(g) ==
    [talon_size |-> Len(g.talon),
     waste |-> [j \in 1..Len(g.waste) |-> suit_value(g.waste[j])],
     foundation_tops |->
         [i \in 1..NumFoundations |->
             IF g.foundations[i] = <<>> THEN None
             ELSE Some(Last(g.foundations[i]))],
     depots |->
         [i \in 1..NumDepots |->
             [j \in 1..Len(g.columns[i]) |-> card_view(g.columns[i][j])]]]

\* what a call of update leaves behind: the view after it, or a panic
Updated(v) == [kind |-> "Ok", view |-> v]
UpdatePanic(v) == [kind |-> "Panic", view |-> v]

\* mutant of update: only the stock is tracked, moves and reveals are not
update_stock_only(v, action, res) ==
    IF action.type = "Take" /\ res # None
    THEN {Updated([v EXCEPT !.waste = Append(@, res[1]), !.talon_size = @ - 1])}
    ELSE IF action.type = "Turnover"
    THEN {Updated([v EXCEPT !.talon_size = Len(v.waste), !.waste = <<>>])}
    ELSE {Updated(v)}

\* SolitaireObserver::update: the outcomes of view.update(action, res).  It
\* is a set because talon_size -= 1 at 0 panics in a build with overflow
\* checks and wraps around in one without.
update(v, action, res) ==
    IF action.type = "Move"
    THEN LET from == action.from
             to == action.to
             n == action.n
         IN  IF is_depot(from) /\ is_depot(to)
             THEN LET src == v.depots[from.index]
                      n_skip == IF Len(src) >= n THEN Len(src) - n ELSE 0
                      cards_to_move == SubSeq(src, n_skip + 1, Len(src))
                      d1 == [v.depots EXCEPT ![from.index] = SubSeq(src, 1, n_skip)]
                      d2 == [d1 EXCEPT ![to.index] = d1[to.index] \o cards_to_move]
                  IN  {Updated([v EXCEPT !.depots = d2])}
             ELSE IF is_depot(from) /\ is_foundation(to)
             THEN LET src == v.depots[from.index]
                  IN  IF n # 1 \/ src = <<>> THEN {UpdatePanic(v)}
                      ELSE IF Last(src).tag = "FaceUp"
                      THEN {Updated([v EXCEPT
                                !.depots[from.index] = Front(src),
                                !.foundation_tops[to.index] =
                                    <<(<<Last(src).suit, Last(src).value>>)>>])}
                      ELSE {UpdatePanic([v EXCEPT !.depots[from.index] = Front(src)])}
             ELSE IF is_foundation(from) /\ is_depot(to)
             THEN IF v.foundation_tops[from.index] = None THEN {UpdatePanic(v)}
                  ELSE LET card == v.foundation_tops[from.index][1]
                       \* the rank is lowered in a copy of the top that is
                       \* dropped at once: foundation_tops keeps the card
                       IN  {Updated([v EXCEPT !.depots[to.index] =
                                        Append(@, FaceUp(card[1], card[2]))])}
             ELSE IF is_waste(from) /\ is_depot(to) /\ n = 1
             THEN IF v.waste = <<>> THEN {UpdatePanic(v)}
                  ELSE LET card == Last(v.waste)
                       IN  {Updated([v EXCEPT
                                !.waste = Front(v.waste),
                                !.depots[to.index] =
                                    Append(@, FaceUp(card[1], card[2]))])}
             ELSE IF is_waste(from) /\ is_foundation(to) /\ n = 1
             THEN IF v.waste = <<>> THEN {UpdatePanic(v)}
                  ELSE {Updated([v EXCEPT
                            !.waste = Front(v.waste),
                            !.foundation_tops[to.index] = <<Last(v.waste)>>])}
             ELSE {UpdatePanic(v)}
    ELSE IF action.type = "Take"
    THEN IF res = None THEN {UpdatePanic(v)}
         ELSE LET w == [v EXCEPT !.waste = Append(@, res[1])]
              IN  IF v.talon_size > 0
                  THEN {Updated([w EXCEPT !.talon_size = @ - 1])}
                  ELSE {UpdatePanic(w),
                        Updated([w EXCEPT !.talon_size = 2^64 - 1])}
    ELSE IF action.type = "Turnover"
    THEN {Updated([v EXCEPT !.talon_size = Len(v.waste), !.waste = <<>>])}
    ELSE IF action.type = "Quit"
    THEN {Updated(v)}
    ELSE \* Reveal
         IF res = None \/ action.from.index \notin 1..NumDepots
         THEN {UpdatePanic(v)}
         ELSE LET d == v.depots[action.from.index]
              IN  IF d # <<>> /\ Last(d).tag = "FaceDown"
                  THEN {Updated([v EXCEPT !.depots[action.from.index][Len(d)] =
                                    FaceUp(res[1][1], res[1][2])])}
                  ELSE {UpdatePanic(v)}

\* mutant of view_is_won: one King on a foundation is enough
view_is_won_any(v) ==
    \E i \in 1..NumFoundations :
        v.foundation_tops[i] # None /\ v.foundation_tops[i][1][2] = KING

\* SolitaireObserver::is_won: every foundation top is a King
view_is_won(v) ==
    \A i \in 1..NumFoundations :
        v.foundation_tops[i] # None /\ v.foundation_tops[i][1][2] = KING

\* SolitaireObserver::n_takeable_cards: the face-up cards that end the pile
n_takeable_cards(v, addr) ==
    IF is_waste(addr) THEN (IF v.waste # <<>> THEN 1 ELSE 0)
    ELSE IF is_foundation(addr)
    THEN (IF v.foundation_tops[addr.index] # None THEN 1 ELSE 0)
    ELSE LET p == v.depots[addr.index]
             down == {j \in 1..Len(p) : p[j].tag = "FaceDown"}
         IN  Len(p) - (IF down = {} THEN 0
                       ELSE CHOOSE j \in down : \A k \in down : k <= j)

\* SolitaireObserver::card_at: the n-th card from the top of a pile, as an
\* Option<CardView> (a sequence of at most one CardView); called with n >= 1
card_at(v, addr, n) ==
    IF is_waste(addr) /\ n = 1
    THEN (IF v.waste = <<>> THEN None
          ELSE <<FaceUp(Last(v.waste)[1], Last(v.waste)[2])>>)
    ELSE IF is_foundation(addr) /\ n = 1
    THEN (IF v.foundation_tops[addr.index] = None THEN None
          ELSE <<FaceUp(v.foundation_tops[addr.index][1][1],
                        v.foundation_tops[addr.index][1][2])>>)
    ELSE IF is_depot(addr)
    THEN LET p == v.depots[addr.index]
         IN  IF n <= Len(p) THEN <<p[Len(p) - n + 1]>> ELSE None
    ELSE None

\* the derived Ord of Suit: the order of declaration in core.rs
SuitDeclared == <<"Hearts", "Diamonds", "Clubs", "Spades">>
suit_ord(s) == CHOOSE i \in 1..Len(SuitDeclared) : SuitDeclared[i] = s

\* the derived Ord of Option<(Suit, Value)> as a key: None first, then by
\* suit, then by rank
option_key(o) == IF o = None THEN 0 ELSE suit_ord(o[1][1]) * (MaxRank + 1) + o[1][2]

\* the derived Ord of CardView as a key: FaceUp by suit then rank, FaceDown last
card_view_key(c) ==
    IF c.tag = "FaceUp" THEN suit_ord(c.suit) * (MaxRank + 1) + c.value
    ELSE (Len(SuitDeclared) + 1) * (MaxRank + 1)

\* Ord of Vec<CardView>: lexicographic, a proper prefix first
RECURSIVE depot_less(_, _)
depot_less(a, b) ==
    IF b = <<>> THEN FALSE
    ELSE IF a = <<>> THEN TRUE
    ELSE IF card_view_key(Head(a)) # card_view_key(Head(b))
    THEN card_view_key(Head(a)) < card_view_key(Head(b))
    ELSE depot_less(Tail(a), Tail(b))

option_less(a, b) == option_key(a) < option_key(b)

\* slice::sort on the elements s[1..n] under the order Less: a stable
\* insertion of each element behind those not greater than it
sort(s, n, Less(_, _)) ==
    LET sorted[i \in 0..n] ==
            IF i = 0 THEN <<>>
            ELSE LET t == sorted[i - 1]
                     k == Cardinality({j \in 1..Len(t) : ~Less(s[i], t[j])})
                 IN  SubSeq(t, 1, k) \o <<s[i]>> \o SubSeq(t, k + 1, Len(t))
    IN  sorted[n]

\* impl Hash for SolitaireObserver: what is fed to the hasher, in order
observer_hash(v) ==
    <<v.talon_size, v.waste,
      sort(v.foundation_tops, NumFoundations, option_less),
      sort(v.depots, NumDepots, depot_less)>>

\* the derived PartialEq of SolitaireObserver: field by field, array
\* element by array element
observer_eq(v, w) ==
    /\ v.talon_size = w.talon_size
    /\ v.waste = w.waste
    /\ \A i \in 1..NumFoundations : v.foundation_tops[i] = w.foundation_tops[i]
    /\ \A i \in 1..NumDepots : v.depots[i] = w.depots[i]

\* HashSet::contains on seen_state_action_combos: an entry that compares
\* equal and has the same hash
contains(seen, v, action) ==
    \E e \in seen :
        /\ e[2] = action
        /\ observer_eq(e[1], v)
        /\ observer_hash(e[1]) = observer_hash(v)

\* HashSet::insert
insert(seen, v, action) ==
    IF contains(seen, v, action) THEN seen ELSE seen \cup {<<v, action>>}

\* mutant of DEPOTS_AND_WASTE: the first foundation stands where the first
\* column should
DEPOTS_AND_WASTE_with_foundation ==
    [i \in 1..(NumDepots + 1) |->
        IF i = 1 THEN Foundation(1)
        ELSE IF i <= NumDepots THEN Depot(i) ELSE Waste]

\* Addr::DEPOTS_AND_WASTE and Addr::FOUNDATIONS in the order they are iterated
DEPOTS_AND_WASTE == [i \in 1..(NumDepots + 1) |->
                        IF i <= NumDepots THEN Depot(i) ELSE Waste]

\* the concatenation of F(1), ..., F(n): what a loop over 1..n pushes
Pushed(n, F(_)) ==
    LET acc[i \in 0..n] == IF i = 0 THEN <<>> ELSE acc[i - 1] \o F(i)
    IN  acc[n]

\* ------------------------------------------- ai/simple.rs and ai/greedy.rs
\* "Build on foundations", the same loop in both planners
foundation_builds(v) ==
    Pushed(NumDepots + 1, LAMBDA i :
        LET from_addr == DEPOTS_AND_WASTE[i]
            c == card_at(v, from_addr, 1)
        IN  IF c # None /\ c[1].tag = "FaceUp"
            THEN Pushed(NumFoundations, LAMBDA j :
                     LET t == card_at(v, Foundation(j), 1)
                     IN  IF t = None
                         THEN (IF c[1].value = ACE
                               THEN <<Move(from_addr, Foundation(j), 1)>>
                               ELSE <<>>)
                         ELSE IF t[1].tag = "FaceUp"
                                 /\ c[1].suit = t[1].suit
                                 /\ c[1].value = t[1].value + 1
                         THEN <<Move(from_addr, Foundation(j), 1)>>
                         ELSE <<>>)
            ELSE <<>>)

\* mutant of reveals: a Reveal is offered for every column that holds a card
reveals_any(v) ==
    Pushed(NumDepots, LAMBDA i :
        IF v.depots[i] # <<>> THEN <<Reveal(Depot(i))>> ELSE <<>>)

\* "Try to reveal a card", the same loop in both planners
reveals(v) ==
    Pushed(NumDepots, LAMBDA i :
        IF v.depots[i] # <<>> /\ Last(v.depots[i]).tag = "FaceDown"
        THEN <<Reveal(Depot(i))>>
        ELSE <<>>)

\* mutant of run_moves: a run is only offered to an empty column
run_moves_onto_empty(v, from, to, max_cards_to_move) ==
    Pushed(max_cards_to_move, LAMBDA n_moves :
        LET c == card_at(v, from, n_moves)
            t == card_at(v, to, 1)
        IN  IF c # None /\ c[1].tag = "FaceUp" /\ t = None /\ c[1].value = KING
            THEN <<Move(from, to, n_moves)>>
            ELSE <<>>)

\* the innermost loop of "Try to increase the sequences in the tableaux":
\* the moves of 1..max_cards_to_move cards from `from` onto `to`
run_moves(v, from, to, max_cards_to_move) ==
    Pushed(max_cards_to_move, LAMBDA n_moves :
        LET c == card_at(v, from, n_moves)
            t == card_at(v, to, 1)
        IN  IF c # None /\ c[1].tag = "FaceUp"
            THEN IF t = None
                 THEN (IF c[1].value = KING
                       THEN <<Move(from, to, n_moves)>> ELSE <<>>)
                 ELSE IF t[1].tag = "FaceUp"
                         /\ color(c[1].suit) # color(t[1].suit)
                         /\ c[1].value = t[1].value - 1
                 THEN <<Move(from, to, n_moves)>>
                 ELSE <<>>
            ELSE <<>>)

TWO == 2

\* mutant of simple_holds_back: only a 2 is kept back
simple_holds_back_twos(v, from, passes) ==
    /\ is_waste(from)
    /\ v.waste # <<>>
    /\ Last(v.waste)[2] = TWO

\* SimpleAi: the waste card is kept back from the tableau
simple_holds_back(v, from, passes) ==
    /\ is_waste(from)
    /\ v.waste # <<>>
    /\ \/ Last(v.waste)[2] = TWO
       \/ Last(v.waste)[2] < 5 /\ passes = 0

\* SimpleAi: "Try to increase the sequences in the tableaux"
simple_tableau_moves(v, passes) ==
    Pushed(NumDepots + 1, LAMBDA i :
        LET from == DEPOTS_AND_WASTE[i]
            max_cards_to_move == n_takeable_cards(v, from)
        IN  Pushed(NumDepots, LAMBDA j :
                IF Depot(j) = from \/ simple_holds_back(v, from, passes)
                THEN <<>>
                ELSE run_moves(v, from, Depot(j), max_cards_to_move)))

\* GreedyAi: "Try to increase the sequences in the tableaux"
greedy_tableau_moves(v) ==
    Pushed(NumDepots + 1, LAMBDA i :
        LET from == DEPOTS_AND_WASTE[i]
            max_cards_to_move == n_takeable_cards(v, from)
        IN  Pushed(NumDepots, LAMBDA j :
                IF Depot(j) = from THEN <<>>
                ELSE run_moves(v, from, Depot(j), max_cards_to_move)))

take_and_turnover(v) ==
    (IF v.talon_size # 0 THEN <<Take>> ELSE <<>>)
        \o (IF v.waste # <<>> /\ v.talon_size = 0 THEN <<Turnover>> ELSE <<>>)

\* mutant of simple_suggest_actions: giving up is offered in a won view only
simple_suggest_actions_without_quit(v, passes) ==
    IF view_is_won(v) THEN <<Quit>>
    ELSE foundation_builds(v) \o reveals(v)
            \o simple_tableau_moves(v, passes)
            \o take_and_turnover(v)

\* SimpleAi::suggest_actions: the candidates in the order they are tried
simple_suggest_actions(v, passes) ==
    IF view_is_won(v) THEN <<Quit>>
    ELSE foundation_builds(v) \o reveals(v)
            \o simple_tableau_moves(v, passes)
            \o take_and_turnover(v) \o <<Quit>>

\* PrioritizedAction
PrioritizedAction(p, a) == [priority |-> p, action |-> a]

\* the score GreedyAi gives a tableau move
tableau_score(a) ==
    IF is_foundation(a.from) /\ is_depot(a.to) THEN -15
    ELSE IF is_waste(a.from) /\ is_foundation(a.to) THEN 10
    ELSE IF is_waste(a.from) /\ is_depot(a.to) THEN 5
    ELSE 0

Prioritized(p, actions) ==
    [i \in 1..Len(actions) |-> PrioritizedAction(p, actions[i])]

\* GreedyAi::suggest_actions before the sort: the candidates in the order
\* they are pushed on the heap
greedy_pushed(v) ==
    Prioritized(10, foundation_builds(v))
        \o Prioritized(5, reveals(v))
        \o (LET moves == greedy_tableau_moves(v)
            IN  [i \in 1..Len(moves) |->
                    PrioritizedAction(tableau_score(moves[i]), moves[i])])
        \o (IF v.talon_size # 0 THEN <<PrioritizedAction(0, Take)>> ELSE <<>>)
        \o (IF v.waste # <<>> /\ v.talon_size = 0
            THEN <<PrioritizedAction(-100, Turnover)>> ELSE <<>>)
        \o <<PrioritizedAction(-200, Quit)>>

\* the arrangements of the elements heap[i], i \in S, by ascending priority
RECURSIVE ascending(_, _)
ascending(heap, S) ==
    IF S = {} THEN {<<>>}
    ELSE UNION {{Append(l, heap[i]) : l \in ascending(heap, S \ {i})} :
                i \in {k \in S : \A m \in S : heap[m].priority <= heap[k].priority}}

\* BinaryHeap::into_sorted_vec: the elements in ascending order.  Elements
\* that compare equal (same priority) come in an order the heap does not
\* promise, so this is the set of the vectors it may return.
into_sorted_vec(heap) == ascending(heap, 1..Len(heap))

\* mutant of greedy_suggest_actions: the sorted vector is not reversed
greedy_suggest_actions_ascending(v) ==
    IF view_is_won(v) THEN {<<Quit>>}
    ELSE {[i \in 1..Len(l) |-> l[i].action] : l \in into_sorted_vec(greedy_pushed(v))}

\* GreedyAi::suggest_actions: the candidate lists it may return, each in
\* the order the candidates are tried
greedy_suggest_actions(v) ==
    IF view_is_won(v) THEN {<<Quit>>}
    ELSE {[i \in 1..Len(l) |-> l[Len(l) + 1 - i].action] :
            l \in into_sorted_vec(greedy_pushed(v))}

\* what make_move leaves behind: the action returned, the memory and the
\* pass counter after it; or the panic "No action found"
Returned(a, seen, passes) ==
    [kind |-> "Ok", action |-> a, seen |-> seen, number_of_passes |-> passes]
NoActionFound(seen, passes) ==
    [kind |-> "Panic", action |-> Quit, seen |-> seen, number_of_passes |-> passes]

\* mutant of first_untried: the candidate returned is not recorded
first_untried_unrecorded(actions, v, seen, passes) ==
    LET untried == {i \in 1..Len(actions) : ~contains(seen, v, actions[i])}
    IN  IF untried = {} THEN NoActionFound(seen, passes)
        ELSE LET action == actions[CHOOSE i \in untried : \A k \in untried : i <= k]
             IN  Returned(action, seen,
                          IF action = Turnover THEN passes + 1
                          ELSE passes)

\* the loop of GreedyAi::calc_action and of SimpleAi::make_move: the first
\* candidate not recorded against the view is recorded and returned
first_untried(actions, v, seen, passes) ==
    LET untried == {i \in 1..Len(actions) : ~contains(seen, v, actions[i])}
    IN  IF untried = {} THEN NoActionFound(seen, passes)
        ELSE LET action == actions[CHOOSE i \in untried : \A k \in untried : i <= k]
             IN  Returned(action, insert(seen, v, action),
                          IF action = Turnover THEN passes + 1
                          ELSE passes)

\* mutant of simple_make_move: the candidates are tried from the last one
simple_make_move_backwards(v, seen, passes) ==
    first_untried(Reverse(simple_suggest_actions(v, passes)), v, seen,
                  passes)

\* SimpleAi::make_move
simple_make_move(v, seen, passes) ==
    first_untried(simple_suggest_actions(v, passes), v, seen,
                  passes)

\* GreedyAi::calc_action: one outcome for each list suggest_actions may return
greedy_calc_action(v, seen, passes) ==
    {first_untried(actions, v, seen, passes) :
        actions \in greedy_suggest_actions(v)}

\* ------------------------------------------------------------ the machine
\* the view held where no planner is seated: one of no cards
NoView ==
    [talon_size |-> 0, waste |-> <<>>,
     foundation_tops |-> [i \in 1..NumFoundations |-> None],
     depots |-> [i \in 1..NumDepots |-> <<>>]]

Seeds == 0..MaxSeed
Counts == 0..MaxCount

Init ==
    \E seed \in Seeds :
        LET g == deal(seed)
        IN  /\ talon = g.talon
            /\ waste = g.waste
            /\ columns = g.columns
            /\ foundations = g.foundations
            /\ state = g.state
            /\ current_score = g.current_score
            /\ aborted = FALSE
            \* no planner: the calls of act come from any caller
            /\ ai = "None"
            /\ view = NoView
            /\ seen_state_action_combos = {}
            /\ number_of_passes = 0
            /\ last_action = NoAction
            /\ pc = "done"
            /\ panic_message = ""

\* one call gs.act(&action); a call that panicked is the last one
Act(a) ==
    /\ ~aborted
    /\ ai = "None"
    /\ \E r \in {act(GameEngine, a)} :
           /\ talon' = r.g.talon
           /\ waste' = r.g.waste
           /\ columns' = r.g.columns
           /\ foundations' = r.g.foundations
           /\ state' = r.g.state
           /\ current_score' = r.g.current_score
           /\ aborted' = (r.res.kind = "Panic")
    /\ UNCHANGED planner_vars

ActTake == Act(Take)
ActTurnover == Act(Turnover)
ActQuit == Act(Quit)
ActReveal == \E a \in Addr : Act(Reveal(a))
ActMove == \E from \in Addr, to \in Addr, n \in Counts : Act(Move(from, to, n))

Next == ActTake \/ ActTurnover \/ ActQuit \/ ActReveal \/ ActMove

Spec == Init /\ [][Next]_vars

\* ---------------------------------------------------------------- main.rs
n_games_to_play == 10

\* the engine g with a fresh planner of the given kind on its view, before
\* the first turn of the loop
Seated(g, kind) ==
    /\ talon = g.talon
    /\ waste = g.waste
    /\ columns = g.columns
    /\ foundations = g.foundations
    /\ state = g.state
    /\ current_score = g.current_score
    /\ aborted = FALSE
    /\ ai = kind
    /\ view = observe(g)
    /\ seen_state_action_combos = {}
    /\ number_of_passes = 0
    /\ last_action = NoAction
    /\ pc = "make_move"
    /\ panic_message = ""

\* game k of main: the engine dealt from seed k, and make_ai(gs.observe())
PlayInit ==
    \E k \in 0..(n_games_to_play - 1), kind \in {"Simple", "Greedy"} :
        Seated(deal(k), kind)

\* ai.make_move() returned or panicked with outcome o
MadeMove(o) ==
    /\ seen_state_action_combos' = o.seen
    /\ number_of_passes' = o.number_of_passes
    /\ IF o.kind = "Ok"
       THEN /\ last_action' = o.action
            /\ pc' = "act"
            /\ panic_message' = ""
       ELSE /\ last_action' = last_action
            /\ pc' = "done"
            /\ panic_message' = "No action found"
    /\ UNCHANGED <<engine_vars, ai, view>>

\* let action = ai.make_move(), by SimpleAi
SimpleMakeMove ==
    /\ pc = "make_move"
    /\ is_running(GameEngine)
    /\ ai = "Simple"
    /\ MadeMove(simple_make_move(view, seen_state_action_combos, number_of_passes))

\* let action = ai.make_move(), by GreedyAi
GreedyMakeMove ==
    /\ pc = "make_move"
    /\ is_running(GameEngine)
    /\ ai = "Greedy"
    /\ \E o \in greedy_calc_action(view, seen_state_action_combos, number_of_passes) :
           MadeMove(o)

\* let res = gs.act(&action).unwrap_or_else(panic); ai.update(action, res)
ActAndUpdate ==
    /\ pc = "act"
    /\ \E r \in {act(GameEngine, last_action)} :
           IF r.res.kind = "Ok"
           THEN /\ talon' = r.g.talon
                /\ waste' = r.g.waste
                /\ columns' = r.g.columns
                /\ foundations' = r.g.foundations
                /\ state' = r.g.state
                /\ current_score' = r.g.current_score
                /\ aborted' = aborted
                /\ \E u \in update(view, last_action, r.res.value) :
                       /\ view' = u.view
                       /\ IF u.kind = "Ok"
                          THEN pc' = "make_move" /\ panic_message' = ""
                          ELSE pc' = "done" /\ panic_message' = "update"
           ELSE /\ aborted' = (r.res.kind = "Panic")
                /\ pc' = "done"
                /\ panic_message' = "The AI suggested an illegal move!"
                /\ UNCHANGED <<talon, waste, columns, foundations, state,
                               current_score, view>>
    /\ UNCHANGED <<ai, seen_state_action_combos, number_of_passes, last_action>>

\* while gs.is_running() is false: the loop is left
LoopExit ==
    /\ pc = "make_move"
    /\ ~is_running(GameEngine)
    /\ pc' = "done"
    /\ UNCHANGED <<engine_vars, ai, view, seen_state_action_combos,
                   number_of_passes, last_action, panic_message>>

PlayNext == SimpleMakeMove \/ GreedyMakeMove \/ ActAndUpdate \/ LoopExit

\* the games main plays
PlaySpec == PlayInit /\ [][PlayNext]_vars

\* the loop is sequential code that nothing suspends: a turn that can be
\* taken is taken
PlayLive == PlaySpec /\ WF_vars(PlayNext)

\* Engines laid out by hand, as the unit tests build them: every column
\* holds at most one card, face-up, and all other piles are empty.
Layouts ==
    LET cells == {<<>>} \cup {<<Card(s, v, TRUE)>> : s \in Suit, v \in 1..MaxRank}
    IN  {[talon |-> <<>>, waste |-> <<>>, columns |-> c,
          foundations |-> [i \in 1..NumFoundations |-> <<>>],
          state |-> "Running", current_score |-> 0] :
         c \in [1..NumDepots -> cells]}

LayoutInit ==
    \E g \in Layouts, kind \in {"Simple", "Greedy"} : Seated(g, kind)

\* the planners at play on the hand-built layouts
LayoutSpec == LayoutInit /\ [][PlayNext]_vars

\* ------------------------------------------------------------ properties
\* every action value tried
Actions ==
    {Take, Turnover, Quit}
        \cup {Reveal(a) : a \in Addr}
        \cup {Move(from, to, n) : from \in Addr, to \in Addr, n \in Counts}

RECURSIVE Concat(_, _)
\* the piles f[1], ..., f[k] laid end to end
Concat(f, k) == IF k = 0 THEN <<>> ELSE Concat(f, k - 1) \o f[k]

\* every card of the engine, pile after pile
AllCards(g) ==
    g.talon \o g.waste \o Concat(g.foundations, NumFoundations)
            \o Concat(g.columns, NumDepots)

Identity(c) == <<c.suit, c.value>>

\* all piles other than those addressed by `except` (the talon included) agree
SamePilesExcept(g1, g2, except) ==
    /\ g1.talon = g2.talon
    /\ \A a \in Addr \ except : pile(g1, a) = pile(g2, a)

AllFoundationsComplete(g) ==
    \A i \in 1..NumFoundations : Len(g.foundations[i]) = MaxRank

\* C1: the cards of talon, waste, foundations and columns together are
\* exactly the cards of the deck, each occurring exactly once.
CardConservation ==
    LET all == AllCards(GameEngine)
    IN  /\ Len(all) = DeckSize
        /\ {Identity(all[i]) : i \in 1..Len(all)} = Suit \X (1..MaxRank)

\* cards have been drawn, built on a foundation and moved between columns
CardConservationWitness ==
    /\ talon # <<>>
    /\ waste # <<>>
    /\ \E i \in 1..NumFoundations : foundations[i] # <<>>
    /\ \E i \in 1..NumDepots : columns[i] = <<>>
    /\ \E i \in 1..NumDepots : Len(columns[i]) >= 2

\* C2: whenever act returns an error, the engine (talon, waste, foundations,
\* columns, status and score) is what it was before the call.
ErrLeavesEngineUnchanged ==
    \A a \in Actions :
        \A r \in {act(GameEngine, a)} :
            r.res.kind = "Err" => r.g = GameEngine

\* after some scoring play, a two-card move onto a column and a Turnover
\* are both refused
ErrLeavesEngineUnchangedWitness ==
    /\ current_score > 0
    /\ ~aborted
    /\ act(GameEngine, Turnover).res.kind = "Err"
    /\ \E from \in DEPOTS, to \in DEPOTS :
          /\ Len(pile(GameEngine, from)) >= 2
          /\ act(GameEngine, Move(from, to, 2)).res.kind = "Err"

\* C3: every foundation holds, bottom to top, the ranks 1, 2, ..., k of one
\* single suit.
FoundationsAscendingOneSuit ==
    \A f \in 1..NumFoundations :
        \A i \in 1..Len(foundations[f]) :
            /\ foundations[f][i].value = i
            /\ foundations[f][i].suit = foundations[f][1].suit

\* two foundations are under construction, one of them past its Ace
FoundationsAscendingOneSuitWitness ==
    \E f1 \in 1..NumFoundations, f2 \in 1..NumFoundations :
        /\ f1 # f2
        /\ Len(foundations[f1]) >= 2
        /\ Len(foundations[f2]) >= 1

\* C4: in every column, of two adjacent face-up cards the upper one is one
\* rank lower than, and of the opposite color to, the one beneath it.
ColumnsAlternateDescending ==
    \A d \in 1..NumDepots :
        \A i \in 1..(Len(columns[d]) - 1) :
            (columns[d][i].faceup /\ columns[d][i + 1].faceup) =>
                /\ columns[d][i + 1].value = columns[d][i].value - 1
                /\ color(columns[d][i + 1].suit) # color(columns[d][i].suit)

\* a column holds a face-up run of the whole rank range
ColumnsAlternateDescendingWitness ==
    \E d \in 1..NumDepots :
        /\ Len(columns[d]) >= MaxRank
        /\ \A i \in 1..Len(columns[d]) : columns[d][i].faceup

\* C5: every card of the talon is face-down and every card of the waste is
\* face-up.
TalonFaceDownWasteFaceUp ==
    /\ \A i \in 1..Len(talon) : ~talon[i].faceup
    /\ \A i \in 1..Len(waste) : waste[i].faceup

\* a talon rebuilt by a Turnover (the score it cost cannot be told from the
\* state, the changed draw order can: a card was played from the waste)
TalonFaceDownWasteFaceUpWitness ==
    /\ Len(talon) >= 1
    /\ Len(waste) >= 1
    /\ Len(talon) + Len(waste) < DeckSize - dealt_before(NumDepots + 1)

\* C6: the top card of every non-empty foundation is face-up.
FoundationTopsFaceUp ==
    \A f \in 1..NumFoundations :
        foundations[f] # <<>> => Last(foundations[f]).faceup

\* C7, as claimed: once the status is Win or Fail, no call of act changes it.
TerminalStatusFrozen ==
    [][state # "Running" => state' = state]_vars

\* C7, amended: once the status is Win or Fail, no call of act makes it
\* Running again (Quit still turns Win into Fail, and completing the
\* foundations still turns Fail into Win).
NeverRunningAgain ==
    [][state # "Running" => state' # "Running"]_vars

\* the game was won and then quit
NeverRunningAgainWitness ==
    state = "Fail" /\ AllFoundationsComplete(GameEngine)

\* C8, as claimed: is_won() holds exactly when all foundations are complete.
WonIffFoundationsComplete ==
    is_won(GameEngine) <=> AllFoundationsComplete(GameEngine)

\* C8, amended: for every call of act made while the status is Running,
\* is_won() holds after the call exactly when all foundations are complete
\* after it.
WonIffCompleteWhileRunning ==
    [][state = "Running" =>
          (is_won(GameEngineNext) <=> AllFoundationsComplete(GameEngineNext))]_vars

\* the game has been won
WonIffCompleteWhileRunningWitness ==
    is_won(GameEngine) /\ AllFoundationsComplete(GameEngine) /\ current_score > 0

\* C9: a Move from a column with n = 0, or with n larger than the column,
\* returns an error and leaves the engine unchanged.
MalformedCountIsError ==
    \A from \in DEPOTS, to \in Addr, n \in Counts :
        (n = 0 \/ n > Len(pile(GameEngine, from))) =>
            \A r \in {act(GameEngine, Move(from, to, n))} :
                r.res.kind = "Err" /\ r.g = GameEngine

\* the premise of the rule for building on a foundation
FoundationAccepts(src, dst) ==
    /\ src # <<>>
    /\ \/ Last(src).value = ACE /\ dst = <<>>
       \/ /\ dst # <<>>
          /\ Last(src).suit = Last(dst).suit
          /\ Last(src).value = Last(dst).value + 1

\* C10: a Move onto a foundation succeeds only if n = 1, the source is not
\* empty and its top card is an Ace with the foundation empty or the
\* successor, in the same suit, of the foundation's top card; then exactly
\* that card goes from the top of the source to the top of the foundation
\* and no other pile changes.
MoveToFoundationRule ==
    \A from \in Addr, to \in FOUNDATIONS, n \in Counts :
        \A r \in {act(GameEngine, Move(from, to, n))} :
            r.res.kind = "Ok" =>
                LET src == pile(GameEngine, from)
                    dst == pile(GameEngine, to)
                IN  /\ n = 1
                    /\ FoundationAccepts(src, dst)
                    /\ from # to
                    /\ pile(r.g, from) = Front(src)
                    /\ pile(r.g, to) = Append(dst, Last(src))
                    /\ SamePilesExcept(r.g, GameEngine, {from, to})

\* a foundation holds more than its Ace while the waste top and a column top
\* are both accepted by some foundation
MoveToFoundationRuleWitness ==
    /\ ~aborted
    /\ \E f \in 1..NumFoundations : Len(foundations[f]) >= 2
    /\ \E to \in FOUNDATIONS :
          act(GameEngine, Move(Waste, to, 1)).res.kind = "Ok"
    /\ \E from \in DEPOTS, to \in FOUNDATIONS :
          act(GameEngine, Move(from, to, 1)).res.kind = "Ok"

\* the premise of the rule for building on a column: the top n cards of
\* src exist and are face-up, and the lowest of them is a King for an empty
\* dst, or else one rank below and of the other color than dst's face-up top
DepotAccepts(src, dst, n) ==
    /\ n >= 1
    /\ Len(src) >= n
    /\ \A i \in (Len(src) - n + 1)..Len(src) : src[i].faceup
    /\ \/ dst = <<>> /\ src[Len(src) - n + 1].value = KING
       \/ /\ dst # <<>>
          /\ Last(dst).faceup
          /\ color(src[Len(src) - n + 1].suit) # color(Last(dst).suit)
          /\ src[Len(src) - n + 1].value = Last(dst).value - 1

\* what a successful Move of n cards onto a column does: the n cards leave
\* the source and are appended to the destination in their order, and no
\* other pile changes
DepotMoveEffect(g, g2, from, to, n) ==
    LET src == pile(g, from)
        dst == pile(g, to)
    IN  /\ from # to
        /\ pile(g2, from) = SubSeq(src, 1, Len(src) - n)
        /\ pile(g2, to) = dst \o SubSeq(src, Len(src) - n + 1, Len(src))
        /\ SamePilesExcept(g2, g, {from, to})

\* C11, as claimed: a Move onto a column succeeds if and only if the source
\* holds n cards, its top n cards are face-up and the lowest of them fits
\* the destination; on success the n cards are appended in their order and
\* no other pile changes.
MoveToDepotIff ==
    \A from \in Addr, to \in DEPOTS, n \in Counts :
        \A r \in {act(GameEngine, Move(from, to, n))} :
            /\ (r.res.kind = "Ok") <=>
                   DepotAccepts(pile(GameEngine, from), pile(GameEngine, to), n)
            /\ r.res.kind = "Ok" => DepotMoveEffect(GameEngine, r.g, from, to, n)

\* C11, amended: a Move onto a column succeeds if and only if the source is
\* a column or n = 1, and the source holds n cards, its top n cards are
\* face-up and the lowest of them fits the destination; on success the n
\* cards are appended in their order and no other pile changes.
MoveToDepotRule ==
    \A from \in Addr, to \in DEPOTS, n \in Counts :
        \A r \in {act(GameEngine, Move(from, to, n))} :
            /\ (r.res.kind = "Ok") <=>
                   /\ is_depot(from) \/ n = 1
                   /\ DepotAccepts(pile(GameEngine, from), pile(GameEngine, to), n)
            /\ r.res.kind = "Ok" => DepotMoveEffect(GameEngine, r.g, from, to, n)

\* a run of two cards can be moved between columns, and a card of the
\* waste can be moved onto a column
MoveToDepotRuleWitness ==
    /\ ~aborted
    /\ \E from \in DEPOTS, to \in DEPOTS :
          act(GameEngine, Move(from, to, 2)).res.kind = "Ok"
    /\ \E to \in DEPOTS : act(GameEngine, Move(Waste, to, 1)).res.kind = "Ok"

\* C12: a Move is refused whenever its destination is the waste, or its
\* source is the waste or a foundation and n is not 1, or its destination is
\* a foundation and n is not 1.
MalformedMoveRefused ==
    \A from \in Addr, to \in Addr, n \in Counts :
        (\/ is_waste(to)
         \/ (is_waste(from) \/ is_foundation(from)) /\ n # 1
         \/ is_foundation(to) /\ n # 1) =>
            act(GameEngine, Move(from, to, n)).res.kind = "Err"

\* the top two cards of the waste would fit a column as a run, and moving
\* the two of them is refused
MalformedMoveRefusedWitness ==
    /\ ~aborted
    /\ \E to \in DEPOTS :
          /\ DepotAccepts(waste, pile(GameEngine, to), 2)
          /\ act(GameEngine, Move(Waste, to, 2)).res.kind = "Err"

\* C13: Take succeeds iff the talon is not empty; then the talon's last card
\* is removed and becomes the top of the waste, face-up, its (suit, rank) is
\* returned, and columns, foundations, status and score are unchanged.
TakeRule ==
    \A r \in {act(GameEngine, Take)} :
        /\ (r.res.kind = "Ok") <=> (talon # <<>>)
        /\ talon = <<>> => r.res.kind = "Err"
        /\ r.res.kind = "Ok" =>
              /\ r.g.talon = SubSeq(talon, 1, Len(talon) - 1)
              /\ r.g.waste = waste \o
                    <<Card(talon[Len(talon)].suit, talon[Len(talon)].value, TRUE)>>
              /\ r.res.value = <<(<<talon[Len(talon)].suit, talon[Len(talon)].value>>)>>
              /\ r.g.columns = columns
              /\ r.g.foundations = foundations
              /\ r.g.state = state
              /\ r.g.current_score = current_score

\* a card can be taken onto a waste that already holds two
TakeRuleWitness ==
    /\ ~aborted
    /\ Len(waste) >= 2
    /\ act(GameEngine, Take).res.kind = "Ok"

\* C14: Turnover succeeds iff the talon is empty and the waste is not; then
\* the waste is empty, the talon holds the former waste in reversed order,
\* all face-down, None is returned, and columns and foundations are
\* unchanged.
TurnoverRule ==
    \A r \in {act(GameEngine, Turnover)} :
        /\ (r.res.kind = "Ok") <=> (talon = <<>> /\ waste # <<>>)
        /\ ~(talon = <<>> /\ waste # <<>>) => r.res.kind = "Err"
        /\ r.res.kind = "Ok" =>
              /\ r.g.waste = <<>>
              /\ Len(r.g.talon) = Len(waste)
              /\ \A i \in 1..Len(waste) :
                    r.g.talon[i] = Card(waste[Len(waste) + 1 - i].suit,
                                        waste[Len(waste) + 1 - i].value, FALSE)
              /\ r.res.value = None
              /\ r.g.columns = columns
              /\ r.g.foundations = foundations

\* the talon is used up and the waste holds several cards to turn over
TurnoverRuleWitness ==
    /\ ~aborted
    /\ Len(waste) >= 2
    /\ act(GameEngine, Turnover).res.kind = "Ok"

\* C15: Reveal(addr) succeeds iff addr is a column whose top card exists and
\* is face-down; then only that card's face changes, to face-up, and its
\* (suit, rank) is returned; otherwise an error is returned.
RevealRule ==
    \A a \in Addr :
        \A r \in {act(GameEngine, Reveal(a))} :
            LET p == pile(GameEngine, a)
                can == is_depot(a) /\ p # <<>> /\ ~p[Len(p)].faceup
            IN  /\ (r.res.kind = "Ok") <=> can
                /\ ~can => r.res.kind = "Err"
                /\ r.res.kind = "Ok" =>
                      /\ pile(r.g, a) =
                            SubSeq(p, 1, Len(p) - 1) \o
                                <<Card(p[Len(p)].suit, p[Len(p)].value, TRUE)>>
                      /\ r.res.value = <<(<<p[Len(p)].suit, p[Len(p)].value>>)>>
                      /\ SamePilesExcept(r.g, GameEngine, {a})
                      /\ r.g.state = state

\* one column shows a face-down top card and the other a face-up one, and
\* the waste is in use
RevealRuleWitness ==
    /\ ~aborted
    /\ waste # <<>>
    /\ \E a \in DEPOTS : act(GameEngine, Reveal(a)).res.kind = "Ok"
    /\ \E a \in DEPOTS :
          pile(GameEngine, a) # <<>> /\ Last(pile(GameEngine, a)).faceup

\* C16: Quit returns Ok(None), sets the status to Fail and leaves talon,
\* waste, foundations, columns and score unchanged, in any state.
QuitRule ==
    \A r \in {act(GameEngine, Quit)} :
        /\ r.res = Ok(None)
        /\ r.g.state = "Fail"
        /\ r.g.talon = talon
        /\ r.g.waste = waste
        /\ r.g.foundations = foundations
        /\ r.g.columns = columns
        /\ r.g.current_score = current_score

\* a won game, which Quit turns into a lost one
QuitRuleWitness ==
    /\ ~aborted
    /\ state = "Win"
    /\ act(GameEngine, Quit).g.state = "Fail"

\* the score the claim gives after a successful action, from the score s
\* before it
ScoreAfter(s, a) ==
    IF a.type = "Move" /\ is_waste(a.from) /\ is_foundation(a.to) THEN s + 10
    ELSE IF a.type = "Move" /\ is_depot(a.from) /\ is_foundation(a.to) THEN s + 10
    ELSE IF a.type = "Move" /\ is_waste(a.from) /\ is_depot(a.to) THEN s + 5
    ELSE IF a.type = "Move" /\ is_foundation(a.from) /\ is_depot(a.to)
    THEN (IF s >= 15 THEN s - 15 ELSE 0)
    ELSE IF a.type = "Reveal" THEN s + 5
    ELSE IF a.type = "Turnover" THEN (IF s >= 100 THEN s - 100 ELSE 0)
    ELSE s

\* Waste to foundation f1, Reveal of column d, column d to foundation f2,
\* one after the other from g: the three outcomes
ScoringSequence(g, f1, d, f2) ==
    LET r1 == act(g, Move(Waste, f1, 1))
        r2 == act(r1.g, Reveal(d))
        r3 == act(r2.g, Move(d, f2, 1))
    IN  <<r1, r2, r3>>

\* C17: every successful act changes the score by +10 (waste or column to
\* foundation), +5 (waste to column, Reveal), -15 floored at 0 (foundation
\* to column), -100 floored at 0 (Turnover) and 0 otherwise; so waste to
\* foundation, Reveal, column to foundation in sequence add exactly 25.
ScoreRule ==
    /\ \A a \in Actions :
          \A r \in {act(GameEngine, a)} :
              r.res.kind = "Ok" =>
                  r.g.current_score = ScoreAfter(current_score, a)
    /\ \A f1 \in FOUNDATIONS, d \in DEPOTS, f2 \in FOUNDATIONS :
          \A q \in {ScoringSequence(GameEngine, f1, d, f2)} :
              (\A i \in 1..3 : q[i].res.kind = "Ok") =>
                  q[3].g.current_score = current_score + 25

\* the three-step sequence of the claim can be played from here
ScoreRuleWitness ==
    /\ ~aborted
    /\ \E f1 \in FOUNDATIONS, d \in DEPOTS, f2 \in FOUNDATIONS :
          \A i \in 1..3 :
              ScoringSequence(GameEngine, f1, d, f2)[i].res.kind = "Ok"

\* C18: the score is never negative; a successful Turnover with a score
\* below 100, and a successful foundation-to-column move with a score below
\* 15, leave it at exactly 0.
ScoreNeverUnderflows ==
    /\ current_score >= 0
    /\ \A r \in {act(GameEngine, Turnover)} :
          (r.res.kind = "Ok" /\ current_score < 100) => r.g.current_score = 0
    /\ \A from \in FOUNDATIONS, to \in DEPOTS :
          \A r \in {act(GameEngine, Move(from, to, 1))} :
              (r.res.kind = "Ok" /\ current_score < 15) => r.g.current_score = 0

\* with a positive score below the penalty, a card can go back from a
\* foundation to a column, and with one below 100 the waste can be turned
ScoreNeverUnderflowsWitness ==
    /\ ~aborted
    /\ \/ /\ current_score \in 1..14
          /\ \E from \in FOUNDATIONS, to \in DEPOTS :
                act(GameEngine, Move(from, to, 1)).res.kind = "Ok"
       \/ /\ current_score \in 1..99
          /\ act(GameEngine, Turnover).res.kind = "Ok"

\* the shape of a freshly dealt engine: column i holds i cards of which only
\* the top one is face-up, the talon holds the rest of the pack face-down,
\* waste and foundations are empty, the score is 0 and the game is running
FreshDeal(g) ==
    /\ DOMAIN g.columns = 1..NumDepots
    /\ \A i \in 1..NumDepots :
          /\ Len(g.columns[i]) = i
          /\ \A j \in 1..i : g.columns[i][j].faceup <=> (j = i)
    /\ Len(g.talon) = DeckSize - dealt_before(NumDepots + 1)
    /\ \A j \in 1..Len(g.talon) : ~g.talon[j].faceup
    /\ g.waste = <<>>
    /\ DOMAIN g.foundations = 1..NumFoundations
    /\ \A i \in 1..NumFoundations : g.foundations[i] = <<>>
    /\ g.current_score = 0
    /\ g.state = "Running"
    /\ LET cards == AllCards(g)
       IN  /\ Len(cards) = DeckSize
           /\ {Identity(cards[j]) : j \in 1..Len(cards)} = Suit \X (1..MaxRank)

\* C19: for every seed, deal yields column i with exactly i cards, only the
\* top one face-up, a talon of all remaining cards face-down, an empty waste,
\* empty foundations, score 0 and status Running.
DealShape ==
    \A seed \in Seeds :
        GameEngine = deal(seed) => FreshDeal(GameEngine)

\* the engine as dealt from the last seed, with more than one column dealt
\* and cards left over for the talon
DealShapeWitness ==
    /\ GameEngine = deal(MaxSeed)
    /\ NumDepots >= 2
    /\ talon # <<>>
    /\ deal(0) # deal(MaxSeed)

\* the places of the face-down cards of the talon (pile 0) and of the
\* columns (pile i)
HiddenSlots(g) ==
    {[pile |-> 0, pos |-> j] : j \in {k \in 1..Len(g.talon) : ~g.talon[k].faceup}}
        \cup UNION {{[pile |-> i, pos |-> j] :
                        j \in {k \in 1..Len(g.columns[i]) : ~g.columns[i][k].faceup}} :
                    i \in 1..NumDepots}

CardInSlot(g, a) ==
    IF a.pile = 0 THEN g.talon[a.pos] ELSE g.columns[a.pile][a.pos]

PutInSlot(g, a, c) ==
    IF a.pile = 0 THEN [g EXCEPT !.talon[a.pos] = c]
    ELSE [g EXCEPT !.columns[a.pile][a.pos] = c]

\* the engine g with the face-down cards in slots a and b exchanged
SwapHidden(g, a, b) ==
    PutInSlot(PutInSlot(g, a, CardInSlot(g, b)), b, CardInSlot(g, a))

\* C21: engines that differ only in which face-down card lies where in the
\* talon and face-down in the columns have equal observe() views; the view
\* holds the talon as a size and a face-down column card as the FaceDown
\* marker at its position.
ObserveHidesFaceDown ==
    /\ \A a \in HiddenSlots(GameEngine), b \in HiddenSlots(GameEngine) :
          observe(SwapHidden(GameEngine, a, b)) = observe(GameEngine)
    /\ observe(GameEngine).talon_size = Len(talon)
    /\ \A i \in 1..NumDepots :
          /\ Len(observe(GameEngine).depots[i]) = Len(columns[i])
          /\ \A j \in 1..Len(columns[i]) :
                observe(GameEngine).depots[i][j] =
                    IF columns[i][j].faceup
                    THEN FaceUp(columns[i][j].suit, columns[i][j].value)
                    ELSE FaceDown

\* after some play, a face-down column card and a talon card of another
\* identity can be exchanged
ObserveHidesFaceDownWitness ==
    /\ ~aborted
    /\ current_score > 0
    /\ \E a \in HiddenSlots(GameEngine), b \in HiddenSlots(GameEngine) :
          /\ a.pile = 0
          /\ b.pile # 0
          /\ SwapHidden(GameEngine, a, b) # GameEngine

\* C22: a view that equals observe() before a successful act equals
\* observe() after it, once advanced with update(action, result); so a view
\* created at the deal and advanced after every call tracks the engine.
ViewTracksEngine ==
    \A a \in Actions :
        \A r \in {act(GameEngine, a)} :
            r.res.kind = "Ok" =>
                \A u \in update(observe(GameEngine), a, r.res.value) :
                    u.kind = "Ok" /\ u.view = observe(r.g)

\* the view v with its columns rearranged by p and its foundation tops by q
Permuted(v, p, q) ==
    [v EXCEPT !.depots = [i \in 1..NumDepots |-> v.depots[p[i]]],
              !.foundation_tops =
                  [i \in 1..NumFoundations |-> v.foundation_tops[q[i]]]]

\* C26: views that differ only by a permutation of the columns or of the
\* foundation tops compare equal and hash identically, so that an action
\* recorded against one is found when looked up against the other.
PermutedViewsAreOneState ==
    \A p \in Permutations(1..NumDepots), q \in Permutations(1..NumFoundations) :
        \A w \in {Permuted(observe(GameEngine), p, q)} :
            /\ observer_hash(w) = observer_hash(observe(GameEngine))
            /\ observer_eq(w, observe(GameEngine))
            /\ contains(insert({}, observe(GameEngine), Take), w, Take)

\* the elements of a sequence
Range(q) == {q[i] : i \in 1..Len(q)}

\* the candidates of GreedyAi for the view v, priorities dropped
GreedyCandidates(v) == UNION {Range(l) : l \in greedy_suggest_actions(v)}

\* the view v shows the n top cards of column i face-up, the lowest of them
\* of the other colour than, and one rank below, the face-up top of column j
ShowsRunOnto(v, i, j, n) ==
    LET src == v.depots[i]
        dst == v.depots[j]
    IN  /\ i # j
        /\ n >= 1
        /\ Len(src) >= n
        /\ \A k \in (Len(src) - n + 1)..Len(src) : src[k].tag = "FaceUp"
        /\ dst # <<>>
        /\ Last(dst).tag = "FaceUp"
        /\ color(src[Len(src) - n + 1].suit) # color(Last(dst).suit)
        /\ src[Len(src) - n + 1].value = Last(dst).value - 1

\* C27: whenever the view shows a face-up run of a column that fits the
\* face-up top of another column (opposite colour, one rank below), the
\* candidates of both planners contain the Move of that run onto that column.
RunOntoColumnOffered ==
    \A i \in 1..NumDepots, j \in 1..NumDepots, n \in 1..MaxRank :
        ShowsRunOnto(observe(GameEngine), i, j, n) =>
            /\ \A passes \in 0..1 :
                  Move(Depot(i), Depot(j), n) \in
                      Range(simple_suggest_actions(observe(GameEngine),
                                                   passes))
            /\ Move(Depot(i), Depot(j), n) \in GreedyCandidates(observe(GameEngine))

\* a run of two cards fits another column
RunOntoColumnOfferedWitness ==
    /\ ~aborted
    /\ \E i \in 1..NumDepots, j \in 1..NumDepots :
          ShowsRunOnto(observe(GameEngine), i, j, 2)

\* C30: when the view shows a King on top of every foundation the
\* candidates of both planners are exactly [Quit]; and the view's is_won()
\* is true exactly when every foundation of the engine it shows is complete.
WonViewOffersQuitOnly ==
    /\ view_is_won(observe(GameEngine)) =>
          /\ \A passes \in 0..1 :
                simple_suggest_actions(observe(GameEngine), passes)
                    = <<Quit>>
          /\ greedy_suggest_actions(observe(GameEngine)) = {<<Quit>>}
    /\ view_is_won(observe(GameEngine)) <=> AllFoundationsComplete(GameEngine)

\* every foundation shows its King; and a state where only one does
WonViewOffersQuitOnlyWitness ==
    /\ ~aborted
    /\ view_is_won(observe(GameEngine))
    /\ AllFoundationsComplete(GameEngine)

\* C23: a planner never returns a (view, action) pair twice in a game: the
\* pair it returns was not in its memory before the call and is in it after
\* the call, and the memory never loses a pair.
NeverReturnsSamePair ==
    [][/\ seen_state_action_combos \subseteq seen_state_action_combos'
       /\ (pc = "make_move" /\ pc' = "act") =>
             /\ ~contains(seen_state_action_combos, view, last_action')
             /\ contains(seen_state_action_combos', view, last_action')]_vars

\* make_move is about to be called on a view it has been called on before,
\* with candidates to skip
NeverReturnsSamePairWitness ==
    /\ pc = "make_move"
    /\ is_running(GameEngine)
    /\ \E e \in seen_state_action_combos : e[1] = view /\ e[2] # Quit

\* the view v shows one face-up King alone in column i and nothing else
KingAlone(v, i) ==
    /\ v.talon_size = 0
    /\ v.waste = <<>>
    /\ \A f \in 1..NumFoundations : v.foundation_tops[f] = None
    /\ Len(v.depots[i]) = 1
    /\ v.depots[i][1].tag = "FaceUp"
    /\ v.depots[i][1].value = KING
    /\ \A j \in 1..NumDepots : j # i => v.depots[j] = <<>>

\* C24: in the deadlocked minimal layout (one face-up King alone in a
\* column, every other pile empty) the candidates of each planner are Quit
\* only.
DeadlockOffersQuitOnly ==
    \A i \in 1..NumDepots :
        KingAlone(view, i) =>
            /\ simple_suggest_actions(view, number_of_passes) = <<Quit>>
            /\ greedy_suggest_actions(view) = {<<Quit>>}

\* C25: the play loop terminates: in every game of either planner the
\* loop is left, without a panic, with the engine no longer Running.
PlayTerminates ==
    <>(pc = "done" /\ ~is_running(GameEngine) /\ panic_message = "")

\* a game given up after the waste was turned over at least once
PlayTerminatesWitness ==
    /\ pc = "done"
    /\ panic_message = ""
    /\ state = "Fail"
    /\ number_of_passes >= 1

\* C29: in the play loop the planners never run out of candidates: the
\* panic "No action found" is unreachable; a (view, Quit) pair is only in
\* the memory once Quit was returned, and then the loop makes no more moves.
NoActionFoundUnreachable ==
    /\ panic_message # "No action found"
    /\ pc = "make_move" /\ is_running(GameEngine) =>
          /\ ~contains(seen_state_action_combos, view, Quit)
          /\ (ai = "Simple" =>
                Quit \in Range(simple_suggest_actions(view, number_of_passes)))
          /\ (ai = "Greedy" =>
                \A l \in greedy_suggest_actions(view) : Quit \in Range(l))
    /\ (\E e \in seen_state_action_combos : e[2] = Quit) =>
          last_action = Quit

\* Quit was returned as the last untried candidate of a view met before,
\* and the loop was left
NoActionFoundUnreachableWitness ==
    /\ pc = "done"
    /\ last_action = Quit
    /\ contains(seen_state_action_combos, view, Quit)
    /\ Cardinality({e \in seen_state_action_combos : e[1] = view}) >= 2

\* the priority the claim gives an action: foundation build 10, Reveal 5,
\* waste to column 5, column to column 0, Take 0, Turnover -100, Quit -200
ClaimedPriority(a) ==
    IF a.type = "Move" /\ is_foundation(a.to) THEN 10
    ELSE IF a.type = "Reveal" THEN 5
    ELSE IF a.type = "Move" /\ is_waste(a.from) THEN 5
    ELSE IF a.type = "Move" THEN 0
    ELSE IF a.type = "Take" THEN 0
    ELSE IF a.type = "Turnover" THEN -100
    ELSE -200

\* C28: GreedyAi.make_move returns a candidate whose priority is at least
\* that of every candidate not yet recorded for the view, with the
\* priorities 10, 5, 5, 0, 0, -100, -200 of the claim; so Quit is returned
\* only when every other candidate is recorded.
GreedyReturnsBest ==
    (ai = "Greedy" /\ pc = "make_move" /\ is_running(GameEngine)) =>
        /\ \A e \in Range(greedy_pushed(view)) :
              e.priority = ClaimedPriority(e.action)
        /\ \A o \in greedy_calc_action(view, seen_state_action_combos,
                                       number_of_passes) :
              /\ o.kind = "Ok"
              /\ \A a \in GreedyCandidates(view) :
                    ~contains(seen_state_action_combos, view, a) =>
                        /\ ClaimedPriority(o.action) >= ClaimedPriority(a)
                        /\ o.action = Quit => a = Quit

\* GreedyAi is back on a view for which it has recorded a candidate: that
\* candidate ranks at least as high as the one it is about to return, and a
\* strictly lower candidate is still untried
GreedyReturnsBestWitness ==
    /\ ai = "Greedy"
    /\ pc = "make_move"
    /\ is_running(GameEngine)
    /\ \E o \in greedy_calc_action(view, seen_state_action_combos, number_of_passes) :
          /\ o.kind = "Ok"
          /\ \E a, b \in GreedyCandidates(view) :
                /\ contains(seen_state_action_combos, view, a)
                /\ ClaimedPriority(a) >= ClaimedPriority(o.action)
                /\ ~contains(seen_state_action_combos, view, b)
                /\ ClaimedPriority(b) < ClaimedPriority(o.action)

\* C31: SimpleAi never returns a move of the waste card onto a column when
\* that card is a 2, nor, before it has returned a Turnover, when its rank is
\* below 5; number_of_passes starts at 0 and grows by one exactly with each
\* Turnover returned.
WasteToColumn(a) == a.type = "Move" /\ is_waste(a.from) /\ is_depot(a.to)

SimpleKeepsLowWasteCards ==
    /\ ai = "Simple" => number_of_passes = 0
    /\ [][ai = "Simple" =>
            /\ number_of_passes' =
                  IF pc = "make_move" /\ pc' = "act" /\ last_action' = Turnover
                  THEN number_of_passes + 1
                  ELSE number_of_passes
            /\ (pc = "make_move" /\ pc' = "act" /\ WasteToColumn(last_action')) =>
                  /\ last_action'.n = 1
                  /\ Last(view.waste)[2] # 2
                  /\ Last(view.waste)[2] < 5 => number_of_passes > 0]_vars

\* SimpleAi, before any Turnover, has returned another action although the
\* 2 on the waste fits a column
SimpleKeepsLowWasteCardsWitness ==
    /\ ai = "Simple"
    /\ pc = "act"
    /\ number_of_passes = 0
    /\ view.waste # <<>>
    /\ Last(view.waste)[2] = 2
    /\ \E j \in 1..NumDepots : run_moves(view, Waste, Depot(j), 1) # <<>>
    /\ ~WasteToColumn(last_action)

\* C32: SimpleAi.make_move returns the first untried candidate in the order
\* foundation builds, Reveals, column moves, Take, Turnover, Quit: every
\* candidate of an earlier category than the returned action is recorded
\* for the view, and so is every earlier candidate of its own category.
Category(a) ==
    IF a.type = "Move" /\ is_foundation(a.to) THEN 1
    ELSE IF a.type = "Reveal" THEN 2
    ELSE IF a.type = "Move" THEN 3
    ELSE IF a = Take THEN 4
    ELSE IF a = Turnover THEN 5
    ELSE 6

SimpleReturnsFirstUntried ==
    (ai = "Simple" /\ pc = "make_move" /\ is_running(GameEngine)) =>
        LET actions == simple_suggest_actions(view, number_of_passes)
            o == simple_make_move(view, seen_state_action_combos, number_of_passes)
        IN  /\ o.kind = "Ok"
            /\ \A i, k \in 1..Len(actions) :
                  i < k => Category(actions[i]) <= Category(actions[k])
            /\ \E k \in 1..Len(actions) :
                  /\ actions[k] = o.action
                  /\ ~contains(seen_state_action_combos, view, o.action)
                  /\ \A i \in 1..(k - 1) :
                        contains(seen_state_action_combos, view, actions[i])
            /\ \A a \in Range(actions) :
                  Category(a) < Category(o.action) =>
                      contains(seen_state_action_combos, view, a)

\* SimpleAi is about to return an action of a later category, the
\* candidates of the earlier ones being recorded for the view
SimpleReturnsFirstUntriedWitness ==
    /\ ai = "Simple"
    /\ pc = "make_move"
    /\ is_running(GameEngine)
    /\ \E a \in Range(simple_suggest_actions(view, number_of_passes)) :
          Category(a) < Category(simple_make_move(view, seen_state_action_combos,
                                                  number_of_passes).action)

\* C33: in the play loop every action a planner returns is accepted by the
\* engine: act returns Ok for it, and the abort "The AI suggested ... an
\* illegal move!" never happens.
PlannerActionsAreLegal ==
    /\ panic_message # "The AI suggested an illegal move!"
    /\ pc = "act" => act(GameEngine, last_action).res.kind = "Ok"

\* a planner has returned a move of a run of two or more cards
PlannerActionsAreLegalWitness ==
    /\ pc = "act"
    /\ last_action.type = "Move"
    /\ last_action.n >= 2
    /\ act(GameEngine, last_action).res.kind = "Ok"

\* C34: under planner-driven play the view the planner keeps is the
\* engine's observe() after every update, and update never panics.
PlannerViewIsObserve ==
    /\ panic_message # "update"
    /\ pc \in {"make_move", "done"} => view = observe(GameEngine)

\* the view has just been updated with the card a Reveal turned up
PlannerViewIsObserveWitness ==
    /\ pc = "make_move"
    /\ last_action.type = "Reveal"
    /\ view = observe(GameEngine)
    /\ Last(view.depots[last_action.from.index]).tag = "FaceUp"

\* C35: no candidate of either planner is a Move whose source is a
\* foundation, so no such Move is returned; and in the play loop the
\* engine's score goes down in a step only when the action is Turnover.
MovesOffFoundation(actions) ==
    {a \in Range(actions) : a.type = "Move" /\ is_foundation(a.from)}

PlannersLeaveFoundationsAlone ==
    [][/\ (pc = "make_move" /\ is_running(GameEngine)) =>
             /\ MovesOffFoundation(simple_suggest_actions(view, number_of_passes)) = {}
             /\ \A l \in greedy_suggest_actions(view) : MovesOffFoundation(l) = {}
       /\ pc' = "act" => ~(last_action'.type = "Move" /\ is_foundation(last_action'.from))
       /\ current_score' < current_score => (pc = "act" /\ last_action = Turnover)]_vars

\* the first Turnover of a game has just taken away the points earned by
\* the cards on the foundations
PlannersLeaveFoundationsAloneWitness ==
    /\ pc = "make_move"
    /\ last_action = Turnover
    /\ number_of_passes = 1
    /\ \E i \in 1..NumFoundations : foundations[i] # <<>>
    /\ current_score = 0

\* C36: in every reachable engine state the face-up cards of a column are
\* a block at its top: no face-down card lies above a face-up one.
FaceUpOnTop ==
    \A i \in 1..NumDepots :
        \A j, k \in 1..Len(columns[i]) :
            (j < k /\ columns[i][j].faceup) => columns[i][k].faceup

\* a run has been moved onto a column that still hides a card: one
\* face-down card below two or more face-up ones
FaceUpOnTopWitness ==
    \E i \in 1..NumDepots :
        /\ Len(columns[i]) >= 3
        /\ ~columns[i][1].faceup
        /\ columns[i][Len(columns[i]) - 1].faceup
        /\ columns[i][Len(columns[i])].faceup

\* C37: from a state with an empty waste and a talon of k >= 1 cards, k
\* Takes succeed and the Turnover after them succeeds and leaves the talon
\* as it was (same cards, same order, all face-down) and the waste empty.
\* the engine after k calls of act with Take, or a failed call on the way
RECURSIVE Takes(_, _)
Takes(g, k) ==
    IF k = 0 THEN Outcome(Ok(None), g)
    ELSE LET before == Takes(g, k - 1)
         IN  IF before.res.kind = "Ok" THEN act(before.g, Take) ELSE before

TalonPassRoundTrip ==
    (waste = <<>> /\ talon # <<>>) =>
        \A pass \in {Takes(GameEngine, Len(talon))} :
            /\ pass.res.kind = "Ok"
            /\ pass.g.talon = <<>>
            /\ \A r \in {act(pass.g, Turnover)} :
                  /\ r.res.kind = "Ok"
                  /\ r.g.talon = talon
                  /\ r.g.waste = <<>>
                  /\ \A i \in 1..Len(r.g.talon) : ~r.g.talon[i].faceup

\* a pass starts again after a card of the stock has been played: the
\* waste is empty and the talon holds two or more cards, fewer than dealt
TalonPassRoundTripWitness ==
    /\ waste = <<>>
    /\ Len(talon) >= 2
    /\ \A seed \in Seeds : Len(talon) < Len(deal(seed).talon)

\* C38: in every reachable engine state a Move from a pile to the same
\* pile, of any count n >= 1, returns an error and leaves the engine as it
\* was.
MoveOntoItselfRejected ==
    \A a \in Addr : \A n \in 1..MaxCount :
        \A r \in {act(GameEngine, Move(a, a, n))} :
            /\ r.res.kind = "Err"
            /\ r.g = GameEngine

\* a column shows a run of two face-up cards, so that a move of the run
\* onto its own column gets as far as the comparison with the top card
MoveOntoItselfRejectedWitness ==
    \E i \in 1..NumDepots :
        /\ Len(columns[i]) >= 2
        /\ columns[i][Len(columns[i]) - 1].faceup
        /\ columns[i][Len(columns[i])].faceup
        /\ act(GameEngine, Move(Depot(i), Depot(i), 2)).res.kind = "Err"
        /\ \E j \in 1..NumFoundations :
              /\ foundations[j] # <<>>
              /\ act(GameEngine, Move(Foundation(j), Foundation(j), 1)).res.kind = "Err"

\* C39: no act call makes talon and waste together hold more cards; Take
\* and Turnover leave their number as it is, and it goes down, by one, in
\* exactly the calls that are a successful Move from the waste.
Stock(g) == Len(g.talon) + Len(g.waste)

StockNeverGrows ==
    \A a \in Actions :
        \A r \in {act(GameEngine, a)} :
            /\ Stock(r.g) <= Stock(GameEngine)
            /\ a \in {Take, Turnover} => Stock(r.g) = Stock(GameEngine)
            /\ Stock(r.g) < Stock(GameEngine) <=>
                  (a.type = "Move" /\ is_waste(a.from) /\ r.res.kind = "Ok")
            /\ Stock(r.g) >= Stock(GameEngine) - 1

\* cards of the stock have been played, and the waste card can be played
\* to a column as well as to a foundation now
StockNeverGrowsWitness ==
    /\ \A seed \in Seeds : Stock(GameEngine) < Stock(deal(seed))
    /\ \E i \in 1..NumDepots :
          act(GameEngine, Move(Waste, Depot(i), 1)).res.kind = "Ok"
    /\ \E j \in 1..NumFoundations :
          act(GameEngine, Move(Waste, Foundation(j), 1)).res.kind = "Ok"

====
